---- MODULE Spec2Model ----
(***************************************************************************)
(* State-machine model of proptest's sequential state-machine strategy:    *)
(*   src/proptest/src/strategy/state_machine.rs                            *)
(*       Sequential::new_tree, SequentialValueTree::{current, simplify,    *)
(*       complicate} and their private helpers                             *)
(*   src/proptest-state-machine/src/strategy/observed_vec.rs               *)
(*       ObservedVec and its IntoIter                                      *)
(* Loops and self-recursion of simplify() are modelled one iteration per   *)
(* step (pc holds the position inside the running call); every other       *)
(* handler is one step.                                                    *)
(***************************************************************************)
EXTENDS Integers, Sequences, FiniteSets, TLC

VARIABLES
    pc,        \* position: "start", "gen", "gen_failed", "gen_panic", "idle",
               \* "simplify", "try_simplify", "shrink_loop", "scan", "panic"
    machine,   \* which AbstractStateMachine implementation is under test
    size,      \* Sequential.size: [start, end_incl]
    runner,    \* TestRunner: [local_rejects]
    max_size,  \* new_tree local: the sampled length
    state,     \* new_tree local: the model state reached so far
    tree,      \* the SequentialValueTree (fields as in the source)
    scan,      \* try_to_find_acceptable locals: [ix, ix_to_check]
    hist,      \* observer: the last completed calls, newest first
    call,      \* observer: the running call, [op, before, visited]
    gen_event, \* observer: what the last step of new_tree did
    ever_true, \* observer: some simplify() has returned true
    false_run, \* observer: simplify() = false in a row, no complicate() between
    exhausted, \* observer: the simplify() calls completed since the first one
               \* that returned false at line 280, that one included (0, 1, 2+)
    restored,  \* observer: the slots that complicate() has put back so far
    ov         \* ObservedVec, its iterators and the shared counter

vars == <<pc, machine, size, runner, max_size, state, tree, scan, hist, call,
          gen_event, ever_true, false_run, exhausted, restored, ov>>

-----------------------------------------------------------------------------
(* Bounds of the model. *)

\* largest upper end of the configured size range
MaxSize == 3
\* TestRunner's config.max_local_rejects
MaxLocalRejects == 1
\* width of usize in the model
UsizeBits == 4
\* longest vector wrapped in an ObservedVec
MaxVecLen == 3
\* number of next() calls made on one iterator
MaxNextCalls == 5
\* number of clones made of one ObservedVec
MaxClones == 1

UsizeModulus == 2 ^ UsizeBits

-----------------------------------------------------------------------------
(* The abstract state machines under test (implementations of the          *)
(* AbstractStateMachine trait).  State is an integer counter that starts   *)
(* at 0, a Transition is an integer added to it.  The machines differ in   *)
(* their pre-conditions (none, "the counter never goes negative", and "the *)
(* counter never goes negative and only odd amounts are added") and in the *)
(* range their transitions(state) strategy draws from.                     *)

Machines == {"always", "nonneg", "nonneg_odd"}

Transitions == (0 - 3) .. 3

transitions(m, s) ==
    CASE m = "always" -> 0 .. 2
      [] m = "nonneg" -> (0 - 1) .. 1
      [] m = "nonneg_odd" -> (0 - 3) .. 3

init_state == 0

next(s, t) == s + t

preconditions(m, s, t) ==
    CASE m = "always" -> TRUE
      [] m = "nonneg" -> s + t >= 0
      [] m = "nonneg_odd" -> s + t >= 0 /\ t % 2 = 1

-----------------------------------------------------------------------------
(* The value tree of one transition: an integer binary search towards 0.   *)

\* Rust's integer division by two truncates towards zero
Half(x) == IF x >= 0 THEN x \div 2 ELSE 0 - ((0 - x) \div 2)

NewGenerator(v) == [lo |-> 0, curr |-> v, hi |-> v]

MagnitudeGreater(lhs, rhs) ==
    IF lhs = 0 THEN FALSE
    ELSE IF lhs < 0 THEN lhs < rhs
    ELSE lhs > rhs

Reposition(g) ==
    LET new_mid == g.lo + Half(g.hi - g.lo)
    IN  IF new_mid = g.curr
        THEN [ok |-> FALSE, g |-> g]
        ELSE [ok |-> TRUE, g |-> [g EXCEPT !.curr = new_mid]]

GenSimplify(g) ==
    IF ~MagnitudeGreater(g.hi, g.lo)
    THEN [ok |-> FALSE, g |-> g]
    ELSE Reposition([g EXCEPT !.hi = g.curr])

GenComplicate(g) ==
    IF ~MagnitudeGreater(g.hi, g.lo)
    THEN [ok |-> FALSE, g |-> g]
    ELSE Reposition([g EXCEPT !.lo = g.curr + (IF g.hi < 0 THEN 0 - 1 ELSE 1)])

-----------------------------------------------------------------------------
(* SequentialValueTree.  Slot ix (0-based, as in the source) is element    *)
(* ix + 1 of the sequences transitions and acceptable_transitions.         *)

None == [kind |-> "None", ix |-> 0]
DeleteTransition(ix) == [kind |-> "DeleteTransition", ix |-> ix]
ShrinkTransition(ix) == [kind |-> "ShrinkTransition", ix |-> ix]

Current == "Current"
SimplifyRejected == "SimplifyRejected"
ComplicateRejected == "ComplicateRejected"

\* VarBitSet::saturated(n)
Saturated(n) == 0 .. (n - 1)

Slots(t) == 0 .. (Len(t.acceptable_transitions) - 1)

\* the elements of seq at the 0-based positions in keep, in order
RECURSIVE Filter(_, _, _)
Filter(seq, keep, from) ==
    IF from > Len(seq) THEN <<>>
    ELSE IF (from - 1) \in keep
         THEN <<seq[from]>> \o Filter(seq, keep, from + 1)
         ELSE Filter(seq, keep, from + 1)

\* ix is None or <<i>> (Some(i))
current_at(t, ix) ==
    LET vals == [i \in 1 .. Len(t.acceptable_transitions) |->
                    IF ix # <<>> /\ ix[1] = i - 1
                    THEN t.transitions[i].curr
                    ELSE t.acceptable_transitions[i].tr]
    IN  Filter(vals, t.included_transitions, 1)

all_rejected(t) ==
    \A ix \in Slots(t) :
        ix \in t.included_transitions =>
            t.acceptable_transitions[ix + 1].st \in {SimplifyRejected, ComplicateRejected}

\* the replay of check_acceptable: FALSE at the first failing precondition
RECURSIVE Replay(_, _, _, _)
Replay(m, s, ts, from) ==
    IF from > Len(ts) THEN TRUE
    ELSE IF preconditions(m, s, ts[from])
         THEN Replay(m, next(s, ts[from]), ts, from + 1)
         ELSE FALSE

\* check_acceptable that replays the cached values only
check_acceptable_cached(m, t, ix) == Replay(m, t.initial_state, current_at(t, <<>>), 1)

\* check_acceptable(), lines 327-339
check_acceptable(m, t, ix) == Replay(m, t.initial_state, current_at(t, ix), 1)

next_shrink_transition(t, current_ix) ==
    IF current_ix = t.max_ix
    THEN ShrinkTransition(0)
    ELSE ShrinkTransition(current_ix + 1)

current(t) == current_at(t, <<>>)


-----------------------------------------------------------------------------
(* The steps of simplify().  Each operator is one pass through the named   *)
(* lines and yields the position reached (pc), the tree, the value         *)
(* returned to the caller if the call ends here (ret, else "none"), the    *)
(* slot changed by a committed move (move) and the locals of the scan.     *)

NoScan == [ix |-> 0, ix_to_check |-> 0]
NoMove == [kind |-> "none", ix |-> 0]

Goto(p, t) == [pc |-> p, tree |-> t, ret |-> "none", move |-> NoMove, scan |-> NoScan]
Return(b, t, mv) ==
    [pc |-> "idle", tree |-> t, ret |-> IF b THEN "true" ELSE "false",
     move |-> mv, scan |-> NoScan]

SetMarker(t, ix, st) ==
    [t EXCEPT !.acceptable_transitions[ix + 1].st = st]

\* acceptable_transitions[ix] = (Cell::new(Current), transitions[ix].current())
AdoptCurrent(t, ix) ==
    [t EXCEPT !.acceptable_transitions[ix + 1] =
                  [st |-> Current, tr |-> t.transitions[ix + 1].curr]]

\* simplify() that goes on to try_simplify() when there is no shrink to rotate
simplify_tries_anyway(m, t) ==
    IF all_rejected(t) /\ t.prev_shrink.kind = "ShrinkTransition"
    THEN [Goto("scan", t) EXCEPT
             !.scan = [ix |-> t.prev_shrink.ix, ix_to_check |-> t.prev_shrink.ix]]
    ELSE Goto("try_simplify", t)

\* simplify(), lines 384-393
simplify(m, t) ==
    IF all_rejected(t)
    THEN IF t.prev_shrink.kind = "ShrinkTransition"
         THEN [Goto("scan", t) EXCEPT
                  !.scan = [ix |-> t.prev_shrink.ix, ix_to_check |-> t.prev_shrink.ix]]
         ELSE Return(FALSE, t, NoMove)
    ELSE Goto("try_simplify", t)

\* try_simplify() that deletes until nothing is included
try_simplify_delete_to_empty(m, t) ==
    IF t.shrink.kind = "DeleteTransition"
    THEN LET ix == t.shrink.ix
         IN  IF Cardinality(t.included_transitions) = 0
             THEN Goto("shrink_loop", [t EXCEPT !.shrink = ShrinkTransition(0)])
             ELSE LET t1 == [t EXCEPT
                                !.included_transitions = @ \ {ix},
                                !.prev_shrink = t.shrink,
                                !.shrink = IF ix = 0
                                           THEN ShrinkTransition(0)
                                           ELSE DeleteTransition(ix - 1)]
                  IN  IF ~check_acceptable(m, t1, <<>>)
                      THEN Goto("try_simplify",
                                [t1 EXCEPT !.included_transitions = @ \cup {ix},
                                           !.prev_shrink = None])
                      ELSE Return(TRUE,
                                  [t1 EXCEPT !.shrinkable_transitions = @ \ {ix}],
                                  [kind |-> "delete", ix |-> ix])
    ELSE Goto("shrink_loop", t)

\* try_simplify() that leaves the cursor alone when nothing can be deleted
try_simplify_delete_keeps_cursor(m, t) ==
    IF t.shrink.kind = "DeleteTransition"
    THEN LET ix == t.shrink.ix
         IN  IF Cardinality(t.included_transitions) = t.min_size
             THEN Goto("shrink_loop", t)
             ELSE LET t1 == [t EXCEPT
                                !.included_transitions = @ \ {ix},
                                !.prev_shrink = t.shrink,
                                !.shrink = IF ix = 0
                                           THEN ShrinkTransition(0)
                                           ELSE DeleteTransition(ix - 1)]
                  IN  IF ~check_acceptable(m, t1, <<>>)
                      THEN Goto("try_simplify",
                                [t1 EXCEPT !.included_transitions = @ \cup {ix},
                                           !.prev_shrink = None])
                      ELSE Return(TRUE,
                                  [t1 EXCEPT !.shrinkable_transitions = @ \ {ix}],
                                  [kind |-> "delete", ix |-> ix])
    ELSE Goto("shrink_loop", t)

\* try_simplify() that does not put a slot back when its deletion is rejected
try_simplify_delete_drops_rejected(m, t) ==
    IF t.shrink.kind = "DeleteTransition"
    THEN LET ix == t.shrink.ix
         IN  IF Cardinality(t.included_transitions) = t.min_size
             THEN Goto("shrink_loop", [t EXCEPT !.shrink = ShrinkTransition(0)])
             ELSE LET t1 == [t EXCEPT
                                !.included_transitions = @ \ {ix},
                                !.prev_shrink = t.shrink,
                                !.shrink = IF ix = 0
                                           THEN ShrinkTransition(0)
                                           ELSE DeleteTransition(ix - 1)]
                  IN  IF ~check_acceptable(m, t1, <<>>)
                      THEN Goto("try_simplify", [t1 EXCEPT !.prev_shrink = None])
                      ELSE Return(TRUE,
                                  [t1 EXCEPT !.shrinkable_transitions = @ \ {ix}],
                                  [kind |-> "delete", ix |-> ix])
    ELSE Goto("shrink_loop", t)

\* try_simplify() whose committed deletion leaves the slot shrinkable
try_simplify_delete_keeps_shrinkable(m, t) ==
    IF t.shrink.kind = "DeleteTransition"
    THEN LET ix == t.shrink.ix
         IN  IF Cardinality(t.included_transitions) = t.min_size
             THEN Goto("shrink_loop", [t EXCEPT !.shrink = ShrinkTransition(0)])
             ELSE LET t1 == [t EXCEPT
                                !.included_transitions = @ \ {ix},
                                !.prev_shrink = t.shrink,
                                !.shrink = IF ix = 0
                                           THEN ShrinkTransition(0)
                                           ELSE DeleteTransition(ix - 1)]
                  IN  IF ~check_acceptable(m, t1, <<>>)
                      THEN Goto("try_simplify",
                                [t1 EXCEPT !.included_transitions = @ \cup {ix},
                                           !.prev_shrink = None])
                      ELSE Return(TRUE, t1, [kind |-> "delete", ix |-> ix])
    ELSE Goto("shrink_loop", t)

\* try_simplify(), the delete branch, lines 250-274
try_simplify_delete(m, t) ==
    IF t.shrink.kind = "DeleteTransition"
    THEN LET ix == t.shrink.ix
         IN  IF Cardinality(t.included_transitions) = t.min_size
             THEN Goto("shrink_loop", [t EXCEPT !.shrink = ShrinkTransition(0)])
             ELSE LET t1 == [t EXCEPT
                                !.included_transitions = @ \ {ix},
                                !.prev_shrink = t.shrink,
                                !.shrink = IF ix = 0
                                           THEN ShrinkTransition(0)
                                           ELSE DeleteTransition(ix - 1)]
                  IN  IF ~check_acceptable(m, t1, <<>>)
                      THEN Goto("try_simplify",
                                [t1 EXCEPT !.included_transitions = @ \cup {ix},
                                           !.prev_shrink = None])
                      ELSE Return(TRUE,
                                  [t1 EXCEPT !.shrinkable_transitions = @ \ {ix}],
                                  [kind |-> "delete", ix |-> ix])
    ELSE Goto("shrink_loop", t)

\* try_simplify() that gives up after a rejected simplification
try_simplify_shrink_gives_up(m, t) ==
    IF t.shrink.kind # "ShrinkTransition"
    THEN Goto("panic", t)
    ELSE
    LET ix == t.shrink.ix
        advance == next_shrink_transition(t, ix)
    IN  IF Cardinality(t.shrinkable_transitions) = 0
        THEN Return(FALSE, t, NoMove)
        ELSE IF ix \notin t.included_transitions
        THEN Goto("shrink_loop", [t EXCEPT !.shrink = advance])
        ELSE IF t.acceptable_transitions[ix + 1].st = SimplifyRejected
        THEN Goto("shrink_loop", [t EXCEPT !.shrink = advance])
        ELSE LET r == GenSimplify(t.transitions[ix + 1])
                 t1 == [t EXCEPT !.transitions[ix + 1] = r.g]
             IN  IF r.ok
                 THEN LET t2 == [t1 EXCEPT !.prev_shrink = t.shrink]
                      IN  IF check_acceptable(m, t2, <<ix>>)
                          THEN Return(TRUE, AdoptCurrent(t2, ix),
                                      [kind |-> "shrink", ix |-> ix])
                          ELSE Return(FALSE,
                                      [SetMarker(t2, ix, SimplifyRejected)
                                          EXCEPT !.shrink = advance],
                                      NoMove)
                 ELSE Goto("shrink_loop",
                           [t1 EXCEPT !.shrinkable_transitions = @ \ {ix},
                                      !.shrink = advance])

\* try_simplify() that caches the simplified value although it is rejected
try_simplify_shrink_caches_rejected(m, t) ==
    IF t.shrink.kind # "ShrinkTransition"
    THEN Goto("panic", t)
    ELSE
    LET ix == t.shrink.ix
        advance == next_shrink_transition(t, ix)
    IN  IF Cardinality(t.shrinkable_transitions) = 0
        THEN Return(FALSE, t, NoMove)
        ELSE IF ix \notin t.included_transitions
        THEN Goto("shrink_loop", [t EXCEPT !.shrink = advance])
        ELSE IF t.acceptable_transitions[ix + 1].st = SimplifyRejected
        THEN Goto("shrink_loop", [t EXCEPT !.shrink = advance])
        ELSE LET r == GenSimplify(t.transitions[ix + 1])
                 t1 == [t EXCEPT !.transitions[ix + 1] = r.g]
             IN  IF r.ok
                 THEN LET t2 == [t1 EXCEPT !.prev_shrink = t.shrink]
                      IN  IF check_acceptable(m, t2, <<ix>>)
                          THEN Return(TRUE, AdoptCurrent(t2, ix),
                                      [kind |-> "shrink", ix |-> ix])
                          ELSE Goto("simplify",
                                    [SetMarker(AdoptCurrent(t2, ix), ix,
                                               SimplifyRejected)
                                        EXCEPT !.shrink = advance])
                 ELSE Goto("shrink_loop",
                           [t1 EXCEPT !.shrinkable_transitions = @ \ {ix},
                                      !.shrink = advance])

\* try_simplify(), one iteration of the while loop, lines 276-309
try_simplify_shrink(m, t) ==
    IF t.shrink.kind # "ShrinkTransition"
    THEN Goto("panic", t)
    ELSE
    LET ix == t.shrink.ix
        advance == next_shrink_transition(t, ix)
    IN  IF Cardinality(t.shrinkable_transitions) = 0
        THEN Return(FALSE, t, NoMove)
        ELSE IF ix \notin t.included_transitions
        THEN Goto("shrink_loop", [t EXCEPT !.shrink = advance])
        ELSE IF t.acceptable_transitions[ix + 1].st = SimplifyRejected
        THEN Goto("shrink_loop", [t EXCEPT !.shrink = advance])
        ELSE LET r == GenSimplify(t.transitions[ix + 1])
                 t1 == [t EXCEPT !.transitions[ix + 1] = r.g]
             IN  IF r.ok
                 THEN LET t2 == [t1 EXCEPT !.prev_shrink = t.shrink]
                      IN  IF check_acceptable(m, t2, <<ix>>)
                          THEN Return(TRUE, AdoptCurrent(t2, ix),
                                      [kind |-> "shrink", ix |-> ix])
                          ELSE Goto("simplify",
                                    [SetMarker(t2, ix, SimplifyRejected)
                                        EXCEPT !.shrink = advance])
                 ELSE Goto("shrink_loop",
                           [t1 EXCEPT !.shrinkable_transitions = @ \ {ix},
                                      !.shrink = advance])

\* try_to_find_acceptable() that adopts a value without replaying it
try_to_find_acceptable_unchecked(m, t, sc) ==
    IF sc.ix_to_check \in t.included_transitions
    THEN Return(TRUE, AdoptCurrent(t, sc.ix_to_check),
                [kind |-> "adopt", ix |-> sc.ix_to_check])
    ELSE LET nxt == IF sc.ix_to_check = t.max_ix
                    THEN 0
                    ELSE (sc.ix_to_check + 1) % UsizeModulus
         IN  IF nxt = sc.ix
             THEN Return(FALSE, t, NoMove)
             ELSE [Goto("scan", t) EXCEPT !.scan = [sc EXCEPT !.ix_to_check = nxt]]

\* try_to_find_acceptable() that stops at the last slot instead of wrapping
try_to_find_acceptable_no_wraparound(m, t, sc) ==
    IF /\ sc.ix_to_check \in t.included_transitions
       /\ check_acceptable(m, t, <<sc.ix_to_check>>)
    THEN Return(TRUE, AdoptCurrent(t, sc.ix_to_check),
                [kind |-> "adopt", ix |-> sc.ix_to_check])
    ELSE IF sc.ix_to_check = t.max_ix
         THEN Return(FALSE, t, NoMove)
         ELSE [Goto("scan", t) EXCEPT
                  !.scan = [sc EXCEPT !.ix_to_check = (sc.ix_to_check + 1) % UsizeModulus]]

\* try_to_find_acceptable(), one iteration of the loop, lines 346-366
try_to_find_acceptable(m, t, sc) ==
    IF /\ sc.ix_to_check \in t.included_transitions
       /\ check_acceptable(m, t, <<sc.ix_to_check>>)
    THEN Return(TRUE, AdoptCurrent(t, sc.ix_to_check),
                [kind |-> "adopt", ix |-> sc.ix_to_check])
    ELSE LET nxt == IF sc.ix_to_check = t.max_ix
                    THEN 0
                    ELSE (sc.ix_to_check + 1) % UsizeModulus
         IN  IF nxt = sc.ix
             THEN Return(FALSE, t, NoMove)
             ELSE [Goto("scan", t) EXCEPT !.scan = [sc EXCEPT !.ix_to_check = nxt]]

\* complicate() whose undo of a deletion leaves the slot not shrinkable
complicate_keeps_unshrinkable(m, t) ==
    CASE t.prev_shrink.kind = "None" -> Return(FALSE, t, NoMove)
      [] t.prev_shrink.kind = "DeleteTransition" ->
            LET ix == t.prev_shrink.ix
            IN  Return(TRUE,
                       [t EXCEPT !.included_transitions = @ \cup {ix},
                                 !.prev_shrink = None],
                       [kind |-> "undelete", ix |-> ix])
      [] t.prev_shrink.kind = "ShrinkTransition" ->
            LET ix == t.prev_shrink.ix
                r == GenComplicate(t.transitions[ix + 1])
                t1 == [t EXCEPT !.transitions[ix + 1] = r.g]
            IN  IF r.ok
                THEN IF check_acceptable(m, t1, <<ix>>)
                     THEN Return(TRUE, AdoptCurrent(t1, ix),
                                 [kind |-> "unshrink", ix |-> ix])
                     ELSE Return(FALSE,
                                 [SetMarker(t1, ix, ComplicateRejected)
                                     EXCEPT !.prev_shrink = None],
                                 NoMove)
                ELSE Return(FALSE, [t1 EXCEPT !.prev_shrink = None], NoMove)

\* complicate() whose undo of a deletion makes every slot shrinkable again
complicate_resaturates(m, t) ==
    CASE t.prev_shrink.kind = "None" -> Return(FALSE, t, NoMove)
      [] t.prev_shrink.kind = "DeleteTransition" ->
            LET ix == t.prev_shrink.ix
            IN  Return(TRUE,
                       [t EXCEPT !.included_transitions = @ \cup {ix},
                                 !.shrinkable_transitions =
                                     Saturated(Len(t.transitions)),
                                 !.prev_shrink = None],
                       [kind |-> "undelete", ix |-> ix])
      [] t.prev_shrink.kind = "ShrinkTransition" ->
            LET ix == t.prev_shrink.ix
                r == GenComplicate(t.transitions[ix + 1])
                t1 == [t EXCEPT !.transitions[ix + 1] = r.g]
            IN  IF r.ok
                THEN IF check_acceptable(m, t1, <<ix>>)
                     THEN Return(TRUE, AdoptCurrent(t1, ix),
                                 [kind |-> "unshrink", ix |-> ix])
                     ELSE Return(FALSE,
                                 [SetMarker(t1, ix, ComplicateRejected)
                                     EXCEPT !.prev_shrink = None],
                                 NoMove)
                ELSE Return(FALSE, [t1 EXCEPT !.prev_shrink = None], NoMove)

\* complicate() whose undo of a deletion moves the cursor back to the slot
complicate_resumes_deletion(m, t) ==
    CASE t.prev_shrink.kind = "None" -> Return(FALSE, t, NoMove)
      [] t.prev_shrink.kind = "DeleteTransition" ->
            LET ix == t.prev_shrink.ix
            IN  Return(TRUE,
                       [t EXCEPT !.included_transitions = @ \cup {ix},
                                 !.shrinkable_transitions = @ \cup {ix},
                                 !.shrink = t.prev_shrink,
                                 !.prev_shrink = None],
                       [kind |-> "undelete", ix |-> ix])
      [] t.prev_shrink.kind = "ShrinkTransition" ->
            LET ix == t.prev_shrink.ix
                r == GenComplicate(t.transitions[ix + 1])
                t1 == [t EXCEPT !.transitions[ix + 1] = r.g]
            IN  IF r.ok
                THEN IF check_acceptable(m, t1, <<ix>>)
                     THEN Return(TRUE, AdoptCurrent(t1, ix),
                                 [kind |-> "unshrink", ix |-> ix])
                     ELSE Return(FALSE,
                                 [SetMarker(t1, ix, ComplicateRejected)
                                     EXCEPT !.prev_shrink = None],
                                 NoMove)
                ELSE Return(FALSE, [t1 EXCEPT !.prev_shrink = None], NoMove)

\* complicate() that forgets the remembered move when the value is accepted
complicate_forgets_move(m, t) ==
    CASE t.prev_shrink.kind = "None" -> Return(FALSE, t, NoMove)
      [] t.prev_shrink.kind = "DeleteTransition" ->
            LET ix == t.prev_shrink.ix
            IN  Return(TRUE,
                       [t EXCEPT !.included_transitions = @ \cup {ix},
                                 !.shrinkable_transitions = @ \cup {ix},
                                 !.prev_shrink = None],
                       [kind |-> "undelete", ix |-> ix])
      [] t.prev_shrink.kind = "ShrinkTransition" ->
            LET ix == t.prev_shrink.ix
                r == GenComplicate(t.transitions[ix + 1])
                t1 == [t EXCEPT !.transitions[ix + 1] = r.g]
            IN  IF r.ok
                THEN IF check_acceptable(m, t1, <<ix>>)
                     THEN Return(TRUE,
                                 [AdoptCurrent(t1, ix) EXCEPT !.prev_shrink = None],
                                 [kind |-> "unshrink", ix |-> ix])
                     ELSE Return(FALSE,
                                 [SetMarker(t1, ix, ComplicateRejected)
                                     EXCEPT !.prev_shrink = None],
                                 NoMove)
                ELSE Return(FALSE, [t1 EXCEPT !.prev_shrink = None], NoMove)

\* complicate(), lines 395-427
complicate(m, t) ==
    CASE t.prev_shrink.kind = "None" -> Return(FALSE, t, NoMove)
      [] t.prev_shrink.kind = "DeleteTransition" ->
            LET ix == t.prev_shrink.ix
            IN  Return(TRUE,
                       [t EXCEPT !.included_transitions = @ \cup {ix},
                                 !.shrinkable_transitions = @ \cup {ix},
                                 !.prev_shrink = None],
                       [kind |-> "undelete", ix |-> ix])
      [] t.prev_shrink.kind = "ShrinkTransition" ->
            LET ix == t.prev_shrink.ix
                r == GenComplicate(t.transitions[ix + 1])
                t1 == [t EXCEPT !.transitions[ix + 1] = r.g]
            IN  IF r.ok
                THEN IF check_acceptable(m, t1, <<ix>>)
                     THEN Return(TRUE, AdoptCurrent(t1, ix),
                                 [kind |-> "unshrink", ix |-> ix])
                     ELSE Return(FALSE,
                                 [SetMarker(t1, ix, ComplicateRejected)
                                     EXCEPT !.prev_shrink = None],
                                 NoMove)
                ELSE Return(FALSE, [t1 EXCEPT !.prev_shrink = None], NoMove)


-----------------------------------------------------------------------------
(* Initial state: a Sequential strategy built by sequential_strategy(size) *)
(* for one of the machines; new_tree has not run yet.                      *)

NoTree ==
    [initial_state |-> init_state,
     transitions |-> <<>>,
     included_transitions |-> {},
     shrinkable_transitions |-> {},
     acceptable_transitions |-> <<>>,
     min_size |-> 0,
     max_ix |-> 0,
     shrink |-> DeleteTransition(0),
     prev_shrink |-> None]

\* the running call: the operation, the tree it started from and the
\* positions (pc, tree, scan) it has been in so far
NoCall == [op |-> "none", before |-> NoTree, visited |-> {}]

NewCall(op, t) == [op |-> op, before |-> t, visited |-> {}]

Position == [pc |-> pc, tree |-> tree, scan |-> scan]

Visit(c) == [c EXCEPT !.visited = @ \cup {Position}]

\* the slots on which two trees differ (bits, generator, cached value, marker)
Touched(a, b) ==
    {ix \in Slots(a) :
        \/ a.transitions[ix + 1] # b.transitions[ix + 1]
        \/ a.acceptable_transitions[ix + 1] # b.acceptable_transitions[ix + 1]
        \/ (ix \in a.included_transitions) # (ix \in b.included_transitions)
        \/ (ix \in a.shrinkable_transitions) # (ix \in b.shrinkable_transitions)}

\* what an observer keeps of a completed call: the operation, its result, the
\* committed move, current() before the call, the slots it changed and
\* whether it changed anything at all
Completed(op, r, before) ==
    [op |-> op, ret |-> r.ret, move |-> r.move, cur |-> current(before),
     touched |-> Touched(before, r.tree), changed |-> before # r.tree]

\* ObservedVec::new(seen_counter, transitions), lines 71-79; rest is the
\* std::vec::IntoIter of an IntoIter (iterating); calls, yielded and
\* counter_before observe the next() calls made, the elements they returned
\* and the value the counter had when the vector was built; printed is the
\* output of the last {:?} formatting (empty: none yet)
NewObservedVec(counter, ts) ==
    [transitions |-> ts, seen_counter |-> counter, iterating |-> FALSE,
     rest |-> <<>>, calls |-> 0, yielded |-> <<>>, counter_before |-> counter,
     printed |-> <<>>]

NoVec == NewObservedVec(0, <<>>)

\* the configured ranges: start ..= MaxSize
SizeRanges == {[start |-> a, end_incl |-> MaxSize] : a \in 0 .. MaxSize}

Init ==
    /\ pc = "start"
    /\ machine \in Machines
    /\ size \in SizeRanges
    /\ runner = [local_rejects |-> 0]
    /\ max_size = 0
    /\ state = init_state
    /\ tree = NoTree
    /\ scan = NoScan
    /\ hist = <<>>
    /\ call = NoCall
    /\ gen_event = "none"
    /\ ever_true = FALSE
    /\ false_run = 0
    /\ exhausted = 0
    /\ restored = {}
    /\ ov = NoVec

observers == <<hist, call, ever_true, false_run, exhausted, restored>>

-----------------------------------------------------------------------------
(* Sequential::new_tree, lines 138-173.                                    *)

\* lines 139-145: the initial state and the sampled length
NewTreeBegin ==
    /\ pc = "start"
    /\ \E n \in size.start .. size.end_incl : max_size' = n
    /\ state' = init_state
    /\ tree' = [NoTree EXCEPT !.initial_state = init_state]
    /\ pc' = "gen"
    /\ gen_event' = "begin"
    /\ UNCHANGED <<machine, size, runner, scan, observers, ov>>

\* what the loop body keeps of an accepted sample, lines 151-154
PushAccepted(t, tr) ==
    [t EXCEPT !.transitions = Append(@, NewGenerator(tr)),
              !.acceptable_transitions = Append(@, [st |-> Current, tr |-> tr])]

\* a loop body that keeps the rejected sample as a slot
KeepRejectedAsSlot(t, tr) == PushAccepted(t, tr)

\* what the loop body keeps of a rejected sample, lines 155-157
KeepRejected(t, tr) == t

\* TestRunner::reject_local
reject_local(r) ==
    IF r.local_rejects >= MaxLocalRejects
    THEN [ok |-> FALSE, runner |-> r]
    ELSE [ok |-> TRUE, runner |-> [r EXCEPT !.local_rejects = @ + 1]]

\* lines 146-154: a sample that satisfies the pre-conditions
GenAccept ==
    /\ pc = "gen"
    /\ Len(tree.transitions) < max_size
    /\ \E tr \in transitions(machine, state) :
        /\ preconditions(machine, state, tr)
        /\ tree' = PushAccepted(tree, tr)
        /\ state' = next(state, tr)
    /\ gen_event' = "accepted"
    /\ UNCHANGED <<pc, machine, size, runner, max_size, scan, observers, ov>>

\* lines 146-150, 155-157: a sample that does not
GenReject ==
    /\ pc = "gen"
    /\ Len(tree.transitions) < max_size
    /\ \E tr \in transitions(machine, state) :
        /\ ~preconditions(machine, state, tr)
        /\ tree' = KeepRejected(tree, tr)
    /\ LET r == reject_local(runner)
       IN  /\ runner' = r.runner
           /\ pc' = IF r.ok THEN "gen" ELSE "gen_failed"
           /\ gen_event' = IF r.ok THEN "rejected" ELSE "reject_error"
    /\ UNCHANGED <<machine, size, max_size, state, scan, observers, ov>>

\* lines 139, 148: a collaborator strategy's new_tree returns an error
GenStrategyError ==
    /\ pc \in {"start", "gen"}
    /\ pc = "gen" => Len(tree.transitions) < max_size
    /\ pc' = "gen_failed"
    /\ gen_event' = "strategy_error"
    /\ UNCHANGED <<machine, size, runner, max_size, state, tree, scan, observers, ov>>

\* max_size - 1 on usize, line 159: wraps when overflow checks are off
MaxIx(n) == (n - 1) % UsizeModulus

\* lines 159-173; with overflow checks on, 0 - 1 panics
GenFinish ==
    /\ pc = "gen"
    /\ Len(tree.transitions) = max_size
    /\ \E overflow_checks \in BOOLEAN :
        IF overflow_checks /\ max_size = 0
        THEN /\ pc' = "gen_panic"
             /\ tree' = tree
        ELSE /\ pc' = "idle"
             /\ tree' = [tree EXCEPT
                            !.included_transitions = Saturated(max_size),
                            !.shrinkable_transitions = Saturated(max_size),
                            !.min_size = size.start,
                            !.max_ix = MaxIx(max_size),
                            !.shrink = DeleteTransition(MaxIx(max_size)),
                            !.prev_shrink = None]
    /\ gen_event' = "finished"
    /\ UNCHANGED <<machine, size, runner, max_size, state, scan, observers, ov>>

-----------------------------------------------------------------------------
(* The calls made by the shrink-search loop that owns the tree.            *)

\* the observer keeps the last two completed calls, newest first, and of the
\* older one only what it did
Older(e) == [op |-> e.op, ret |-> e.ret, move |-> e.move, cur |-> e.cur]

Remember(h, e) == IF h = <<>> THEN <<e>> ELSE <<e, Older(h[1])>>

\* the step with outcome r is the return false of lines 277-281
NothingMoreWeCanDo(r) ==
    /\ pc = "shrink_loop"
    /\ tree.shrink.kind = "ShrinkTransition"
    /\ Cardinality(tree.shrinkable_transitions) = 0
    /\ r.ret = "false"

\* apply the outcome r of a step of the call c
Apply(r, c) ==
    /\ tree' = r.tree
    /\ scan' = r.scan
    /\ pc' = r.pc
    /\ IF r.ret = "none"
       THEN /\ call' = c
            /\ UNCHANGED <<hist, ever_true, false_run, exhausted, restored>>
       ELSE /\ hist' = Remember(hist, Completed(c.op, r, c.before))
            /\ call' = NoCall
            /\ ever_true' = (ever_true \/ (c.op = "simplify" /\ r.ret = "true"))
            /\ false_run' = IF c.op = "simplify" /\ r.ret = "false"
                            THEN (IF false_run < 3 THEN false_run + 1 ELSE 3)
                            ELSE 0
            /\ exhausted' = IF exhausted = 0
                            THEN (IF NothingMoreWeCanDo(r) THEN 1 ELSE 0)
                            ELSE IF c.op = "simplify" THEN 2 ELSE exhausted
            /\ restored' = IF r.move.kind = "undelete"
                           THEN restored \cup {r.move.ix}
                           ELSE restored
    /\ UNCHANGED <<machine, size, runner, max_size, state, gen_event, ov>>

\* the owner calls simplify(): lines 384-393
CallSimplify ==
    /\ pc = "idle"
    /\ Apply(simplify(machine, tree), NewCall("simplify", tree))

\* return self.simplify() at line 301: lines 384-393 again
Simplify ==
    /\ pc = "simplify"
    /\ Apply(simplify(machine, tree), Visit(call))

TrySimplifyDelete ==
    /\ pc = "try_simplify"
    /\ Apply(try_simplify_delete(machine, tree), Visit(call))

TrySimplifyShrink ==
    /\ pc = "shrink_loop"
    /\ Apply(try_simplify_shrink(machine, tree), Visit(call))

TryToFindAcceptable ==
    /\ pc = "scan"
    /\ Apply(try_to_find_acceptable(machine, tree, scan), Visit(call))

\* the owner calls complicate(): lines 395-427
Complicate ==
    /\ pc = "idle"
    /\ Apply(complicate(machine, tree), NewCall("complicate", tree))

SimplifyStep ==
    \/ Simplify
    \/ TrySimplifyDelete
    \/ TrySimplifyShrink
    \/ TryToFindAcceptable

Next ==
    \/ NewTreeBegin
    \/ GenAccept
    \/ GenReject
    \/ GenStrategyError
    \/ GenFinish
    \/ CallSimplify
    \/ SimplifyStep
    \/ Complicate

Spec == Init /\ [][Next]_vars

-----------------------------------------------------------------------------
(* ObservedVec, observed_vec.rs.  The counter is shared (Arc<AtomicUsize>) *)
(* with whoever built the vector; the consumer turns the vector into an    *)
(* iterator and calls next() on it.                                        *)

\* the vectors of length at most n over Transitions
RECURSIVE Vecs(_)
Vecs(n) ==
    IF n = 0 THEN {<<>>}
    ELSE LET shorter == Vecs(n - 1)
         IN  shorter \cup {Append(v, x) : v \in shorter, x \in Transitions}

InitOV ==
    /\ pc = "observed"
    /\ machine = "always"
    /\ size = [start |-> 0, end_incl |-> 0]
    /\ runner = [local_rejects |-> 0]
    /\ max_size = 0
    /\ state = init_state
    /\ tree = NoTree
    /\ scan = NoScan
    /\ hist = <<>>
    /\ call = NoCall
    /\ gen_event = "none"
    /\ ever_true = FALSE
    /\ false_run = 0
    /\ exhausted = 0
    /\ restored = {}
    /\ \E c \in 0 .. 1, ts \in Vecs(MaxVecLen) : ov = NewObservedVec(c, ts)

\* IntoIterator::into_iter, lines 41-46
into_iter(o) == [o EXCEPT !.iterating = TRUE, !.rest = o.transitions]

\* AtomicUsize::fetch_add(1, SeqCst)
fetch_add(c) == (c + 1) % UsizeModulus

\* a next() that counts every call, also one that returns None
iter_next_counts_calls(o) ==
    IF o.rest # <<>>
    THEN [o EXCEPT !.rest = Tail(o.rest),
                   !.seen_counter = fetch_add(o.seen_counter),
                   !.yielded = Append(o.yielded, Head(o.rest)),
                   !.calls = o.calls + 1]
    ELSE [o EXCEPT !.seen_counter = fetch_add(o.seen_counter),
                   !.calls = o.calls + 1]

\* Iterator::next, lines 52-60
iter_next(o) ==
    IF o.rest # <<>>
    THEN [o EXCEPT !.rest = Tail(o.rest),
                   !.seen_counter = fetch_add(o.seen_counter),
                   !.yielded = Append(o.yielded, Head(o.rest)),
                   !.calls = o.calls + 1]
    ELSE [o EXCEPT !.calls = o.calls + 1]

\* Debug of a Vec<i32>: "[", the elements' Debug separated by ", ", "]",
\* as the sequence of these pieces
RECURSIVE DebugElems(_, _)
DebugElems(v, from) ==
    IF from > Len(v) THEN <<>>
    ELSE IF from = Len(v) THEN <<ToString(v[from])>>
    ELSE <<ToString(v[from]), ", ">> \o DebugElems(v, from + 1)

DebugVec(v) == <<"[">> \o DebugElems(v, 1) \o <<"]">>

\* Debug for ObservedVec, lines 63-67
fmt(o) == DebugVec(o.transitions)

tree_vars == <<pc, machine, size, runner, max_size, state, tree, scan, hist, call,
               gen_event, ever_true, false_run, exhausted, restored>>

OvIntoIter ==
    /\ pc = "observed"
    /\ ~ov.iterating
    /\ ov' = into_iter(ov)
    /\ UNCHANGED tree_vars

OvNext ==
    /\ pc = "observed"
    /\ ov.iterating
    /\ ov.calls < MaxNextCalls
    /\ ov' = iter_next(ov)
    /\ UNCHANGED tree_vars

\* format!("{transitions:?}") on the vector, before it is consumed
OvFmt ==
    /\ pc = "observed"
    /\ ~ov.iterating
    /\ ov.printed = <<>>
    /\ ov' = [ov EXCEPT !.printed = fmt(ov)]
    /\ UNCHANGED tree_vars

NextOV ==
    \/ OvFmt
    \/ OvIntoIter
    \/ OvNext

SpecOV == InitOV /\ [][NextOV]_vars

-----------------------------------------------------------------------------
(* ObservedVecs that share one counter.  ObservedVec derives Clone, and a  *)
(* clone holds a clone of the Arc: the same AtomicUsize.  Each vector is   *)
(* consumed by an execution context of its own; the steps of the contexts  *)
(* interleave.  Here ov is [cells, vecs]: the AtomicUsize cells allocated  *)
(* so far and the vectors, each [cell, transitions, rest, at, yielded]     *)
(* with at one of "vec" (not yet consumed), "iter" (between two next()     *)
(* calls), "counting" (inside next(), after line 53) and "done".           *)

\* the vectors of length at most n over the set S
RECURSIVE VecsOver(_, _)
VecsOver(S, n) ==
    IF n = 0 THEN {<<>>}
    ELSE LET shorter == VecsOver(S, n - 1)
         IN  shorter \cup {Append(v, x) : v \in shorter, x \in S}

\* ObservedVec::new(Arc::new(AtomicUsize::new(0)), ts), lines 71-79
NewShared(ts) ==
    [cells |-> <<0>>,
     vecs |-> <<[cell |-> 1, transitions |-> ts, rest |-> <<>>, at |-> "vec",
                 yielded |-> 0]>>]

InitShared ==
    /\ pc = "shared"
    /\ machine = "always"
    /\ size = [start |-> 0, end_incl |-> 0]
    /\ runner = [local_rejects |-> 0]
    /\ max_size = 0
    /\ state = init_state
    /\ tree = NoTree
    /\ scan = NoScan
    /\ hist = <<>>
    /\ call = NoCall
    /\ gen_event = "none"
    /\ ever_true = FALSE
    /\ false_run = 0
    /\ exhausted = 0
    /\ restored = {}
    /\ \E ts \in VecsOver(0 .. 1, MaxVecLen) : ov = NewShared(ts)

\* a clone that gets a counter of its own, holding the value of the original
clone_with_own_counter(o, i) ==
    [cells |-> Append(o.cells, o.cells[o.vecs[i].cell]),
     vecs |-> Append(o.vecs, [o.vecs[i] EXCEPT !.cell = Len(o.cells) + 1])]

\* #[derive(Clone)], line 25: Arc::clone of the counter, Vec::clone of the
\* transitions
clone(o, i) == [o EXCEPT !.vecs = Append(o.vecs, o.vecs[i])]

\* self.transitions.next(), line 53, of vector i's iterator
shared_take(o, i) ==
    IF o.vecs[i].rest # <<>>
    THEN [o EXCEPT !.vecs[i].rest = Tail(@),
                   !.vecs[i].yielded = @ + 1,
                   !.vecs[i].at = "counting"]
    ELSE [o EXCEPT !.vecs[i].at = "done"]

\* self.seen_counter.fetch_add(1, SeqCst), lines 55-57, one atomic step
shared_count(o, i) ==
    [o EXCEPT !.cells[o.vecs[i].cell] = fetch_add(@),
              !.vecs[i].at = "iter"]

ShClone ==
    /\ pc = "shared"
    /\ Len(ov.vecs) <= MaxClones
    /\ \E i \in 1 .. Len(ov.vecs) :
        /\ ov.vecs[i].at = "vec"
        /\ ov' = clone(ov, i)
    /\ UNCHANGED tree_vars

ShIntoIter ==
    /\ pc = "shared"
    /\ \E i \in 1 .. Len(ov.vecs) :
        /\ ov.vecs[i].at = "vec"
        /\ ov' = [ov EXCEPT !.vecs[i].at = "iter",
                            !.vecs[i].rest = ov.vecs[i].transitions]
    /\ UNCHANGED tree_vars

\* next(), up to line 53; a next() that returns None ends the iteration
ShTake ==
    /\ pc = "shared"
    /\ \E i \in 1 .. Len(ov.vecs) :
        /\ ov.vecs[i].at = "iter"
        /\ ov' = shared_take(ov, i)
    /\ UNCHANGED tree_vars

\* next(), lines 55-59
ShCount ==
    /\ pc = "shared"
    /\ \E i \in 1 .. Len(ov.vecs) :
        /\ ov.vecs[i].at = "counting"
        /\ ov' = shared_count(ov, i)
    /\ UNCHANGED tree_vars

\* the consumer stops early and drops the iterator
ShStop ==
    /\ pc = "shared"
    /\ \E i \in 1 .. Len(ov.vecs) :
        /\ ov.vecs[i].at = "iter"
        /\ ov' = [ov EXCEPT !.vecs[i].at = "done"]
    /\ UNCHANGED tree_vars

NextShared ==
    \/ ShClone
    \/ ShIntoIter
    \/ ShTake
    \/ ShCount
    \/ ShStop

SpecShared == InitShared /\ [][NextShared]_vars

-----------------------------------------------------------------------------
(* Properties.                                                             *)

\* the model state after the first n transitions of ts, from s
RECURSIVE ModelStateAfter(_, _, _)
ModelStateAfter(s, ts, n) ==
    IF n = 0 THEN s ELSE next(ModelStateAfter(s, ts, n - 1), ts[n])

\* every transition of ts satisfies the pre-conditions in the state reached
\* by the transitions before it
ReplaysCleanly(m, s, ts) ==
    \A i \in 1 .. Len(ts) : preconditions(m, ModelStateAfter(s, ts, i - 1), ts[i])

\* a tree exists and no call on it is running
AtRest == pc = "idle"

Count(t) == Cardinality(t.included_transitions)

\* C1: whenever the tree is at rest (after generation and after every
\* simplify() or complicate() that has returned), replaying current() from
\* the stored initial state satisfies the pre-conditions at every step.
C1_CurrentReplaysCleanly ==
    AtRest => ReplaysCleanly(machine, tree.initial_state, current(tree))

\* C1 witness: a machine with a real pre-condition, a simplify() and then a
\* complicate() have both returned true and two transitions are left
C1_Witness ==
    /\ AtRest
    /\ machine = "nonneg_odd"
    /\ Len(hist) = 2
    /\ hist[1].op = "complicate" /\ hist[1].ret = "true"
    /\ hist[2].op = "simplify" /\ hist[2].ret = "true"
    /\ Len(current(tree)) = 2

\* C2: whenever the tree is at rest, the number of included slots is at
\* least min_size (the start of the configured range) and at most the
\* inclusive end of the range, and at most the number of slots.
C2_IncludedCountInRange ==
    AtRest =>
        /\ tree.min_size = size.start
        /\ tree.min_size <= Count(tree)
        /\ Count(tree) <= size.end_incl
        /\ Count(tree) <= Len(tree.transitions)

\* C2 witness: deletions have brought the count down to a positive min_size,
\* the last one right after a complicate()
C2_Witness ==
    /\ AtRest
    /\ Len(hist) = 2
    /\ hist[1].op = "simplify" /\ hist[1].ret = "true"
    /\ hist[1].move.kind = "delete"
    /\ hist[2].op = "complicate"
    /\ tree.min_size >= 1
    /\ Count(tree) = tree.min_size
    /\ Count(tree) < Len(tree.transitions)

\* C3: a simplify() call terminates: while it runs it is never a second time
\* at the same position with the same tree and the same locals (every step
\* of the call is a function of these, so a repetition repeats forever).
C3_SimplifyNeverRepeatsAPosition ==
    Position \notin call.visited

\* the last two completed calls were both simplify() and both returned false
FalseTwice ==
    /\ Len(hist) = 2
    /\ \A i \in 1 .. 2 : hist[i].op = "simplify" /\ hist[i].ret = "false"

\* C4: once simplify() has returned false twice in a row, a simplify() that
\* completes next (no complicate() in between) returns false as well.
C4_FalseTwiceStaysFalse ==
    [][(FalseTwice /\ Len(hist') = 2 /\ hist'[1].op = "simplify")
          => hist'[1].ret = "false"]_vars

\* C4 witness: a third simplify() in a row has returned false on a tree that
\* earlier simplify() calls had shrunk
C4_Witness ==
    /\ AtRest
    /\ FalseTwice
    /\ false_run = 3
    /\ ever_true
    /\ Count(tree) >= 2

\* the last two completed calls: a simplify() that committed a deletion, then
\* a complicate()
DeleteThenComplicate ==
    /\ Len(hist) = 2
    /\ hist[1].op = "complicate"
    /\ hist[2].op = "simplify" /\ hist[2].ret = "true"
    /\ hist[2].move.kind = "delete"

\* the last two completed calls: a complicate() that restored a deleted slot,
\* then another complicate()
UndeleteThenComplicate ==
    /\ Len(hist) = 2
    /\ hist[1].op = "complicate"
    /\ hist[2].op = "complicate" /\ hist[2].move.kind = "undelete"

\* C5: a complicate() right after a simplify() that deleted slot ix returns
\* true, puts ix back into both bit sets and makes current() what it was
\* before that simplify(); a complicate() right after that one returns false
\* and changes nothing.
C5_ComplicateUndoesDelete ==
    AtRest =>
        /\ DeleteThenComplicate =>
              /\ hist[1].ret = "true"
              /\ hist[2].move.ix \in tree.included_transitions
              /\ hist[2].move.ix \in tree.shrinkable_transitions
              /\ current(tree) = hist[2].cur
        /\ UndeleteThenComplicate =>
              /\ hist[1].ret = "false"
              /\ ~hist[1].changed

\* C5 witness: a deletion that changed current() has just been undone
C5_Witness ==
    /\ AtRest
    /\ DeleteThenComplicate
    /\ hist[1].move = [kind |-> "undelete", ix |-> hist[2].move.ix]
    /\ hist[1].cur # hist[2].cur
    /\ machine = "nonneg"

\* C6: a complicate() right after a simplify() that returned true having
\* changed slot j (deletion, in-place shrink or adoption by the rotation
\* search) changes slot j only: no other slot's inclusion bit, shrinkable
\* bit, generator, cached value or marker.
C6_ComplicateActsOnLastMovedSlot ==
    (/\ AtRest
     /\ Len(hist) = 2
     /\ hist[1].op = "complicate"
     /\ hist[2].op = "simplify" /\ hist[2].ret = "true")
        => hist[1].touched \subseteq {hist[2].move.ix}

\* C7: while no simplify() on the tree has ever returned true, a complicate()
\* returns false and leaves current() as it was.
C7_NothingToUndoBeforeFirstCommit ==
    (/\ AtRest
     /\ ~ever_true
     /\ hist # <<>>
     /\ hist[1].op = "complicate")
        => /\ hist[1].ret = "false"
           /\ current(tree) = hist[1].cur

\* new_tree has returned a tree and no call has been made on it yet
FreshTree == pc = "idle" /\ hist = <<>>

\* the cached transitions of all slots, in slot order
Cached(t) == [i \in 1 .. Len(t.acceptable_transitions) |-> t.acceptable_transitions[i].tr]

\* C8: the tree new_tree returns has N slots, N the sampled length within
\* the configured range; the cached transitions satisfy the pre-conditions
\* along the sequence from initial_state; both bit sets hold all N slots,
\* every marker is Current, the cursor is DeleteTransition(N - 1) and no
\* move is remembered.
C8_NewTreePostcondition ==
    FreshTree =>
        /\ Len(tree.transitions) = max_size
        /\ Len(tree.acceptable_transitions) = max_size
        /\ size.start <= max_size /\ max_size <= size.end_incl
        /\ ReplaysCleanly(machine, tree.initial_state, Cached(tree))
        /\ tree.included_transitions = 0 .. (max_size - 1)
        /\ tree.shrinkable_transitions = 0 .. (max_size - 1)
        /\ \A i \in 1 .. max_size : tree.acceptable_transitions[i].st = Current
        /\ tree.shrink = DeleteTransition(max_size - 1)
        /\ tree.prev_shrink = None

\* a step of new_tree's loop that drew a sample failing the pre-conditions
RejectedSample ==
    /\ pc = "gen"
    /\ gen_event' \in {"rejected", "reject_error"}
    /\ runner' # runner \/ pc' # pc

\* C9: a sample that fails the pre-conditions adds no slot and leaves the
\* model state and the slots collected so far as they are, and the loop
\* goes on from there unless reject_local reports an error; new_tree ends
\* in failure only on such an error or on a collaborator strategy's error,
\* and a failed new_tree never yields a tree.
C9_RejectedSampleIsRetried ==
    [][/\ RejectedSample =>
            /\ tree' = tree
            /\ state' = state
            /\ max_size' = max_size
            /\ pc' = "gen" \/ (pc' = "gen_failed" /\ gen_event' = "reject_error")
       /\ (pc # "gen_failed" /\ pc' = "gen_failed") =>
            gen_event' \in {"reject_error", "strategy_error"}
       /\ pc = "gen_failed" => pc' = "gen_failed"]_vars

\* C9 witness: a sample was just rejected while two slots were already
\* collected and the model state had moved on, and the loop goes on
C9_Witness ==
    /\ pc = "gen"
    /\ gen_event = "rejected"
    /\ Len(tree.transitions) = 2
    /\ state # init_state
    /\ machine = "nonneg_odd"

Min(a, b) == IF a <= b THEN a ELSE b

\* C10: for an ObservedVec of n elements whose counter started at 0, after
\* k calls of next() on its iterator the counter is min(k, n): one increment
\* per element yielded, none for a next() that returns None.
C10_CounterCountsYielded ==
    (pc = "observed" /\ ov.iterating /\ ov.counter_before = 0) =>
        /\ ov.seen_counter = Min(ov.calls, Len(ov.transitions))
        /\ ov.seen_counter = Len(ov.yielded)

\* C10 witness: next() has been called past the end of a vector of at least
\* two elements
C10_Witness ==
    /\ pc = "observed"
    /\ ov.iterating
    /\ ov.counter_before = 0
    /\ Len(ov.transitions) >= 2
    /\ ov.calls >= Len(ov.transitions) + 2
    /\ ov.seen_counter = Len(ov.transitions)

RECURSIVE Reverse(_)
Reverse(v) == IF v = <<>> THEN <<>> ELSE Append(Reverse(Tail(v)), Head(v))

\* the sequence of which the vector's storage holds the reverse
StoredReversed(o) == Reverse(o.transitions)

\* C11: an ObservedVec whose storage holds the reverse of a sequence v
\* yields, iterated to the end, the elements of v in v's order, and its
\* Debug output is the Debug output of v.
C11_YieldsAndPrintsInOriginalOrder ==
    pc = "observed" =>
        /\ (ov.iterating /\ ov.rest = <<>>) => ov.yielded = StoredReversed(ov)
        /\ ov.printed # <<>> => ov.printed = DebugVec(StoredReversed(ov))

Max(a, b) == IF a >= b THEN a ELSE b

\* simplify() has nothing left to do: it has returned false twice in a row
Exhausted == AtRest /\ FalseTwice

\* C12: if the consumer iterated only the first k of the transitions of
\* current(), the following simplify() calls can bring InclusionSet down to
\* max(k, min_size) slots: a tree on which simplify() has nothing left to do
\* holds no slot beyond that number, whatever k the consumer stopped at.
C12_UnobservedTailIsDropped ==
    \A k \in 0 .. MaxSize :
        (Exhausted /\ k <= Count(tree)) => Count(tree) <= Max(k, tree.min_size)

RECURSIVE TotalYielded(_, _)
TotalYielded(vs, n) ==
    IF n = 0 THEN 0 ELSE vs[n].yielded + TotalYielded(vs, n - 1)

\* every vector sharing the counter has been consumed and its iterator has
\* finished
AllFinished == \A i \in 1 .. Len(ov.vecs) : ov.vecs[i].at = "done"

\* C13: under every interleaving of the iterators that share one counter
\* (clones included), once all of them have finished the counter holds the
\* total number of elements they yielded: no increment is lost.
C13_NoIncrementLost ==
    (pc = "shared" /\ AllFinished) =>
        ov.cells[1] = TotalYielded(ov.vecs, Len(ov.vecs))

\* C13 witness: a vector and its clone, both iterated, have finished, and
\* each yielded at least two elements
C13_Witness ==
    /\ pc = "shared"
    /\ AllFinished
    /\ Len(ov.vecs) = 2
    /\ \A i \in 1 .. 2 : ov.vecs[i].yielded >= 2

\* C14: the abort at the end of try_simplify is never reached: whenever
\* control is at the while loop the cursor is a ShrinkTransition, so the
\* loop is left only by a return.
C14_AbortUnreachable ==
    /\ pc # "panic"
    /\ pc = "shrink_loop" => tree.shrink.kind = "ShrinkTransition"

\* C14 witness: the loop is reached through the delete branch with nothing
\* left to delete, on a tree that still has all its slots
C14_Witness ==
    /\ pc = "shrink_loop"
    /\ Position \notin call.visited
    /\ tree.shrink = ShrinkTransition(0)
    /\ [pc |-> "try_simplify",
        tree |-> [tree EXCEPT !.shrink = DeleteTransition(tree.max_ix)],
        scan |-> NoScan] \in call.visited
    /\ Count(tree) = 2

\* a step of simplify() or complicate(): the slots are those of the tree
\* new_tree returned
CallStep ==
    /\ pc \in {"idle", "simplify", "try_simplify", "shrink_loop", "scan"}
    /\ tree' # tree

\* the operation a CallStep belongs to
StepOp == IF call.op # "none" THEN call.op
          ELSE IF call'.op # "none" THEN call'.op
          ELSE hist'[1].op

Marker(t, ix) == t.acceptable_transitions[ix + 1].st

Rejected == {SimplifyRejected, ComplicateRejected}

\* C15 as stated: across every step of simplify() and complicate() a slot's
\* marker keeps its value or goes from Current to SimplifyRejected or
\* ComplicateRejected; never from a rejected value to Current or to the
\* other rejected value.
C15_MarkersOnlyGetRejected ==
    [][CallStep =>
          \A ix \in Slots(tree) :
              \/ Marker(tree', ix) = Marker(tree, ix)
              \/ Marker(tree, ix) = Current /\ Marker(tree', ix) \in Rejected]_vars

\* C15 amended: a step changes the marker of at most one slot; a marker
\* becomes SimplifyRejected only in simplify() and ComplicateRejected only
\* in complicate(), in both cases with the cached value kept; it becomes
\* Current (from either rejected value) only when the slot's
\* generator-current value becomes its cached value and current() with that
\* value replays cleanly.
C15_MarkerChanges ==
    [][CallStep =>
          /\ Cardinality({ix \in Slots(tree) : Marker(tree', ix) # Marker(tree, ix)}) <= 1
          /\ \A ix \in Slots(tree) :
                Marker(tree', ix) # Marker(tree, ix) =>
                    /\ Marker(tree', ix) = SimplifyRejected =>
                          /\ StepOp = "simplify"
                          /\ tree'.acceptable_transitions[ix + 1].tr
                                 = tree.acceptable_transitions[ix + 1].tr
                    /\ Marker(tree', ix) = ComplicateRejected =>
                          /\ StepOp = "complicate"
                          /\ tree'.acceptable_transitions[ix + 1].tr
                                 = tree.acceptable_transitions[ix + 1].tr
                    /\ Marker(tree', ix) = Current =>
                          /\ tree'.acceptable_transitions[ix + 1].tr
                                 = tree'.transitions[ix + 1].curr
                          /\ ReplaysCleanly(machine, tree'.initial_state,
                                            current(tree'))]_vars

\* C15 witness: the rotation search has just turned a rejected marker back
\* to Current while another slot stays rejected
C15_Witness ==
    /\ AtRest
    /\ hist # <<>>
    /\ hist[1].op = "simplify" /\ hist[1].move.kind = "adopt"
    /\ Marker(tree, hist[1].move.ix) = Current
    /\ \E ix \in Slots(tree) : Marker(tree, ix) \in Rejected

-----------------------------------------------------------------------------
\* a step that completes a call
Completes(op) ==
    /\ pc \in {"idle", "simplify", "try_simplify", "shrink_loop", "scan"}
    /\ pc' = "idle"
    /\ StepOp = op

\* the tree the running call (or the call made by this step) started from
Before == IF call.op # "none" THEN call.before ELSE tree

\* C16: once simplify() has returned false in the shrink phase because no
\* slot remains in ShrinkableSet, every later simplify() call on the same
\* tree returns false, whatever complicate() calls are made in between.
C16_ExhaustedStaysFalse ==
    [][(exhausted >= 1 /\ Completes("simplify")) => hist'[1].ret = "false"]_vars

\* C16 (amended): after such a return, a simplify() call that starts with an
\* empty ShrinkableSet returns false, and the ShrinkableSet stays empty until
\* a complicate() call undoes a deletion.
C16_FalseWhileNothingShrinkable ==
    [][exhausted >= 1 =>
        /\ (Completes("simplify") /\ Before.shrinkable_transitions = {})
              => hist'[1].ret = "false"
        /\ (tree.shrinkable_transitions = {} /\ tree'.shrinkable_transitions # {})
              => /\ Completes("complicate")
                 /\ hist'[1].move.kind = "undelete"
                 /\ tree'.shrinkable_transitions = {hist'[1].move.ix}]_vars

\* a simplify() call after the exhaustion and a complicate() call has
\* returned false
C16_Witness ==
    /\ pc = "idle"
    /\ exhausted = 2
    /\ Len(hist) = 2
    /\ hist[1].op = "simplify" /\ hist[1].ret = "false"
    /\ hist[2].op = "complicate" /\ hist[2].ret = "true"
    /\ tree.shrinkable_transitions = {}

-----------------------------------------------------------------------------
\* the tree t without slot j
Without(t, j) == [t EXCEPT !.included_transitions = @ \ {j}]

\* the slots at or below ix whose removal alone leaves a sequence that
\* replays cleanly
Removable(t, ix) ==
    {j \in Slots(t) :
        /\ j <= ix
        /\ j \in t.included_transitions
        /\ ReplaysCleanly(machine, t.initial_state, current(Without(t, j)))}

Largest(S) == CHOOSE j \in S : \A k \in S : k <= j

\* a simplify() call that started in the delete phase with more than
\* min_size slots included returns
DeleteCallReturns ==
    /\ Completes("simplify")
    /\ Before.shrink.kind = "DeleteTransition"
    /\ Count(Before) > Before.min_size

\* what such a call does: it removes the largest removable slot at or below
\* the cursor and nothing else, or removes nothing and goes on shrinking
DeletesLargestRemovable ==
    DeleteCallReturns =>
        LET b == Before
            S == Removable(b, b.shrink.ix)
        IN  IF S # {}
            THEN LET j == Largest(S)
                 IN  /\ hist'[1].ret = "true"
                     /\ tree'.included_transitions = b.included_transitions \ {j}
                     /\ tree'.shrinkable_transitions = b.shrinkable_transitions \ {j}
                     /\ tree'.prev_shrink = DeleteTransition(j)
                     /\ tree'.shrink = IF j = 0 THEN ShrinkTransition(0)
                                       ELSE DeleteTransition(j - 1)
                     /\ tree'.transitions = b.transitions
                     /\ tree'.acceptable_transitions = b.acceptable_transitions
            ELSE /\ tree'.included_transitions = b.included_transitions
                 /\ tree'.shrink.kind = "ShrinkTransition"

\* the first simplify() call on a fresh tree that has a slot N-1 returns
FirstCallReturns ==
    /\ Completes("simplify")
    /\ hist = <<>>
    /\ machine = "always"
    /\ Len(Before.transitions) >= 1

DeletesLast(t) == [kind |-> "delete", ix |-> Len(t.transitions) - 1]

-----------------------------------------------------------------------------
\* a step of a simplify() or complicate() call
InCall == pc \in {"idle", "simplify", "try_simplify", "shrink_loop", "scan"}

\* C18: deletion runs from the tail to the head and is never resumed: the
\* index of the DeleteTransition cursor only decreases, a ShrinkTransition
\* cursor never becomes a DeleteTransition again, also in complicate(), and a
\* slot restored by complicate() is never deleted afterwards.
C18_DeletionNeverResumed ==
    [][InCall =>
        /\ tree.shrink.kind = "ShrinkTransition"
              => tree'.shrink.kind = "ShrinkTransition"
        /\ (tree.shrink.kind = "DeleteTransition" /\ tree'.shrink # tree.shrink)
              => \/ tree'.shrink.kind = "ShrinkTransition"
                 \/ tree'.shrink.ix < tree.shrink.ix
        /\ tree'.included_transitions # tree.included_transitions
              => tree'.shrink # tree.shrink \/ StepOp = "complicate"
        /\ \A j \in restored :
              j \in tree.included_transitions => j \in tree'.included_transitions]_vars

\* a simplify() call has deleted a slot while a slot restored before is
\* still included
C18_Witness ==
    /\ pc = "idle"
    /\ restored # {}
    /\ restored \subseteq tree.included_transitions
    /\ hist # <<>>
    /\ hist[1].op = "simplify" /\ hist[1].move.kind = "delete"

-----------------------------------------------------------------------------
\* the shrink phase is at an included slot that is not SimplifyRejected, with
\* some slot still shrinkable
AtEligibleSlot ==
    /\ pc = "shrink_loop"
    /\ tree.shrink.kind = "ShrinkTransition"
    /\ tree.shrinkable_transitions # {}
    /\ tree.shrink.ix \in tree.included_transitions
    /\ Marker(tree, tree.shrink.ix) # SimplifyRejected

\* the tree t after slot ix's generator has been asked to simplify
Simplified(t, ix) == [t EXCEPT !.transitions[ix + 1] = GenSimplify(@).g]

\* the generator of the slot under the cursor produces a simpler value and
\* the sequence with that value substituted does not replay cleanly
ShrinkIsRejected ==
    /\ AtEligibleSlot
    /\ GenSimplify(tree.transitions[tree.shrink.ix + 1]).ok
    /\ ~ReplaysCleanly(machine, tree.initial_state,
                       current_at(Simplified(tree, tree.shrink.ix),
                                  <<tree.shrink.ix>>))

\* the index after ix, from N-1 back to 0
IndexAfter(t, ix) == IF ix = Len(t.transitions) - 1 THEN 0 ELSE ix + 1

\* C19: in the shrink phase, when slot ix's generator produces a simpler
\* value and the replay with that value substituted fails, the slot's cached
\* value and the InclusionSet stay as they are (current() is the same), the
\* slot's marker becomes SimplifyRejected and the cursor moves to the next
\* index, from N-1 back to 0; and no simplify() step changes the generator
\* of a slot marked SimplifyRejected or clears that slot from ShrinkableSet.
C19_RejectedShrinkFrame ==
    [][/\ ShrinkIsRejected =>
            LET ix == tree.shrink.ix
            IN  /\ tree'.acceptable_transitions[ix + 1].tr
                      = tree.acceptable_transitions[ix + 1].tr
                /\ tree'.included_transitions = tree.included_transitions
                /\ current(tree') = current(tree)
                /\ Marker(tree', ix) = SimplifyRejected
                /\ \A j \in Slots(tree) \ {ix} :
                      tree'.acceptable_transitions[j + 1]
                         = tree.acceptable_transitions[j + 1]
                /\ tree'.shrink = ShrinkTransition(IndexAfter(tree, ix))
       /\ (InCall /\ StepOp = "simplify") =>
            \A j \in Slots(tree) :
                Marker(tree, j) = SimplifyRejected =>
                    /\ tree'.transitions[j + 1] = tree.transitions[j + 1]
                    /\ j \in tree.shrinkable_transitions
                          => j \in tree'.shrinkable_transitions]_vars

\* a simplification of the last slot has just been rejected and the cursor
\* has wrapped around to slot 0
C19_Witness ==
    /\ pc = "simplify"
    /\ Len(tree.transitions) >= 2
    /\ Marker(tree, Len(tree.transitions) - 1) = SimplifyRejected
    /\ tree.prev_shrink = ShrinkTransition(Len(tree.transitions) - 1)
    /\ tree.shrink = ShrinkTransition(0)

-----------------------------------------------------------------------------
\* every included slot's marker is SimplifyRejected or ComplicateRejected
AllIncludedRejected(t) ==
    \A j \in t.included_transitions : Marker(t, j) \in Rejected

\* simplify() is entered (by the owner or from line 301) in the rotation case
RotationCase ==
    /\ pc \in {"idle", "simplify"}
    /\ StepOp = "simplify"
    /\ AllIncludedRejected(tree)
    /\ tree.prev_shrink.kind = "ShrinkTransition"

\* slot k is included and the sequence with its generator's current value
\* substituted replays cleanly
Qualifies(t, k) ==
    /\ k \in t.included_transitions
    /\ ReplaysCleanly(machine, t.initial_state, current_at(t, <<k>>))

\* the place of slot k in the order ix, ix+1, ..., N-1, 0, ..., ix-1
Rank(t, ix, k) == (k - ix + Len(t.transitions)) % Len(t.transitions)

\* the first slot in that order that qualifies
FirstQualifying(t, ix) ==
    CHOOSE k \in Slots(t) :
        /\ Qualifies(t, k)
        /\ \A j \in Slots(t) : Qualifies(t, j) => Rank(t, ix, k) <= Rank(t, ix, j)

\* C20: when every included slot's marker is SimplifyRejected or
\* ComplicateRejected and the remembered move is ShrinkTransition(ix),
\* simplify() examines the slots in the order ix, ix+1, ..., N-1, 0, ...,
\* ix-1, adopts the generator's current value of the first included slot whose
\* substitution replays cleanly, marks it Current, changes nothing else and
\* returns true; if no slot qualifies it returns false and the tree is as
\* before.
C20_RotationSearch ==
    [][/\ RotationCase =>
            /\ pc' = "scan"
            /\ tree' = tree
            /\ scan' = [ix |-> tree.prev_shrink.ix,
                        ix_to_check |-> tree.prev_shrink.ix]
       /\ pc = "scan" =>
            /\ pc' \in {"scan", "idle"}
            /\ pc' = "scan" =>
                  /\ tree' = tree
                  /\ ~Qualifies(tree, scan.ix_to_check)
                  /\ scan' = [ix |-> scan.ix,
                              ix_to_check |-> IndexAfter(tree, scan.ix_to_check)]
            /\ pc' = "idle" =>
                  IF \E k \in Slots(tree) : Qualifies(tree, k)
                  THEN LET k == FirstQualifying(tree, scan.ix)
                       IN  /\ scan.ix_to_check = k
                           /\ hist'[1].ret = "true"
                           /\ tree' = [tree EXCEPT
                                  !.acceptable_transitions[k + 1] =
                                      [st |-> Current,
                                       tr |-> tree.transitions[k + 1].curr]]
                  ELSE /\ hist'[1].ret = "false"
                       /\ tree' = tree]_vars

\* the rotation search has wrapped around and adopted a slot before the one
\* of the remembered move
C20_Witness ==
    /\ pc = "idle"
    /\ hist # <<>>
    /\ hist[1].op = "simplify" /\ hist[1].ret = "true"
    /\ hist[1].move.kind = "adopt"
    /\ tree.prev_shrink.kind = "ShrinkTransition"
    /\ hist[1].move.ix < tree.prev_shrink.ix

-----------------------------------------------------------------------------
\* the owner calls complicate() while the remembered move is a shrink
ComplicateAfterShrink ==
    /\ pc = "idle"
    /\ StepOp = "complicate"
    /\ tree.prev_shrink.kind = "ShrinkTransition"

\* the tree t after slot ix's generator has been asked to complicate
Complicated(t, ix) == [t EXCEPT !.transitions[ix + 1] = GenComplicate(@).g]

\* C21: when the remembered move is ShrinkTransition(ix), complicate() asks
\* slot ix's generator for a less-simplified value; if it refuses, the move is
\* forgotten and the result is false; if the replay with the new value passes,
\* the value is cached with marker Current, the move is kept and the result is
\* true; if the replay fails, the slot is marked ComplicateRejected, its
\* cached value stays, the move is forgotten and the result is false.  The
\* InclusionSet and the ShrinkableSet are unchanged in all three cases.
C21_ComplicateAfterShrink ==
    [][ComplicateAfterShrink =>
        LET ix == tree.prev_shrink.ix
            r == GenComplicate(tree.transitions[ix + 1])
            t1 == Complicated(tree, ix)
            cached == tree.acceptable_transitions[ix + 1]
        IN  /\ pc' = "idle"
            /\ tree'.included_transitions = tree.included_transitions
            /\ tree'.shrinkable_transitions = tree.shrinkable_transitions
            /\ tree'.transitions = t1.transitions
            /\ IF ~r.ok
               THEN /\ hist'[1].ret = "false"
                    /\ tree'.prev_shrink = None
                    /\ tree'.acceptable_transitions = tree.acceptable_transitions
               ELSE IF ReplaysCleanly(machine, tree.initial_state,
                                      current_at(t1, <<ix>>))
               THEN /\ hist'[1].ret = "true"
                    /\ tree'.prev_shrink = tree.prev_shrink
                    /\ tree'.acceptable_transitions[ix + 1]
                          = [st |-> Current, tr |-> r.g.curr]
               ELSE /\ hist'[1].ret = "false"
                    /\ tree'.prev_shrink = None
                    /\ tree'.acceptable_transitions[ix + 1]
                          = [st |-> ComplicateRejected, tr |-> cached.tr]]_vars

\* a complicate() after a shrink had its value rejected by the replay
C21_Witness ==
    /\ pc = "idle"
    /\ hist # <<>>
    /\ hist[1].op = "complicate" /\ hist[1].ret = "false"
    /\ tree.prev_shrink = None
    /\ \E ix \in hist[1].touched : Marker(tree, ix) = ComplicateRejected

-----------------------------------------------------------------------------
\* the owner calls simplify() while every included slot is rejected and the
\* remembered move is absent or a deletion
NothingToRotate ==
    /\ pc = "idle"
    /\ StepOp = "simplify"
    /\ AllIncludedRejected(tree)
    /\ tree.prev_shrink.kind # "ShrinkTransition"

\* C22: when every included slot's marker is SimplifyRejected or
\* ComplicateRejected and the remembered move is absent or a deletion,
\* simplify() returns false at once, without entering the delete or shrink
\* phase, and the tree is exactly as before.
C22_RejectedWithoutShrinkIsFalse ==
    [][NothingToRotate =>
        /\ pc' = "idle"
        /\ hist'[1].ret = "false"
        /\ tree' = tree
        /\ scan' = scan]_vars

\* such a call has returned on a tree that has an included, rejected slot
C22_Witness ==
    /\ pc = "idle"
    /\ hist # <<>>
    /\ hist[1].op = "simplify" /\ hist[1].ret = "false"
    /\ ~hist[1].changed
    /\ tree.included_transitions # {}
    /\ AllIncludedRejected(tree)
    /\ tree.prev_shrink.kind # "ShrinkTransition"

-----------------------------------------------------------------------------
\* C23: in every reachable state the ShrinkableSet is a subset of the
\* InclusionSet: a slot that is not part of the emitted sequence is never
\* marked shrinkable, after any sequence of simplify() and complicate() calls.
C23_ShrinkableAreIncluded ==
    tree.shrinkable_transitions \subseteq tree.included_transitions

\* after a deletion, its undo and a further deletion, some included slots are
\* shrinkable and some are not
C23_Witness ==
    /\ pc = "idle"
    /\ restored # {}
    /\ tree.included_transitions # Slots(tree)
    /\ tree.shrinkable_transitions # {}
    /\ tree.shrinkable_transitions # tree.included_transitions

-----------------------------------------------------------------------------
\* new_tree has got past its loop with a sampled length of 0
EmptyGenerated == gen_event = "finished" /\ max_size = 0

\* C24: generation with a sampled length N = 0 yields a valid empty tree:
\* computing N - 1 on usize neither panics nor wraps, the cursor holds no
\* index beyond the (empty) range of slots, current() is the empty sequence
\* and every simplify() and complicate() returns false.
C24_EmptyTreeIsValid ==
    EmptyGenerated =>
        /\ pc # "gen_panic"
        /\ tree.max_ix # UsizeModulus - 1
        /\ tree.shrink.ix <= max_size
        /\ current(tree) = <<>>
        /\ \A i \in 1 .. Len(hist) : hist[i].ret = "false"

====
